---- MODULE Spec2Model ----
(***************************************************************************)
(* A model of @softwareventures/format-time: the field formatters, the     *)
(* timeTemplate composition primitive, the iso8601 factory and the         *)
(* humanIso8601 constant.                                                  *)
(*                                                                         *)
(* A JavaScript string is a sequence of one-character strings.  The hours  *)
(* and minutes of a Time are integers.  The seconds of a Time are a        *)
(* fixed-point number: the integer v stands for v / Scale seconds, so a    *)
(* Time carries a tenth of a millisecond of precision.                     *)
(***************************************************************************)
EXTENDS Integers, Sequences, FiniteSets, TLC

VARIABLES formatter, humanIso8601, call

vars == <<formatter, humanIso8601, call>>

----------------------------------------------------------------------------
(* Bounds of the inputs.                                                   *)

MaxHours == 26

MaxMinutes == 12

MaxSeconds == 101

MaxNegSeconds == 2

MaxFraction == 18

MaxIsoHours == 12

MaxIsoMinutes == 10

MaxIsoSeconds == 10

MaxTexts == 3

----------------------------------------------------------------------------
(* Numbers and strings.                                                    *)

Ms == 1000

Scale == 10 * Ms

Digits == <<"0", "1", "2", "3", "4", "5", "6", "7", "8", "9">>

IsDigit(c) == \E i \in 1..Len(Digits) : Digits[i] = c

Abs(n) == IF n < 0 THEN -n ELSE n

RECURSIVE NatToString(_)
NatToString(n) ==
    IF n < 10 THEN <<Digits[n + 1]>>
    ELSE NatToString(n \div 10) \o <<Digits[(n % 10) + 1]>>

\* The number of decimal digits of a fraction of a second.
ScaleDigits == Len(NatToString(Scale)) - 1

\* String(n) for an integer n.
IntToString(n) == IF n < 0 THEN <<"-">> \o NatToString(-n) ELSE NatToString(n)

RECURSIVE StripTrailingZeros(_)
StripTrailingZeros(s) ==
    IF s # <<>> /\ s[Len(s)] = "0" THEN StripTrailingZeros(SubSeq(s, 1, Len(s) - 1))
    ELSE s

Zeros(n) == [i \in 1..n |-> "0"]

\* String.prototype.padStart(n, "0")
PadStart(s, n) == IF Len(s) >= n THEN s ELSE Zeros(n - Len(s)) \o s

\* String(x) for the number x = v / Scale: the shortest decimal that reads
\* back as x, which for these values is the sign, the whole part, and the
\* fraction without its trailing zeros.
NumberToString(v) ==
    LET whole == Abs(v) \div Scale
        frac  == Abs(v) % Scale
        sign  == IF v < 0 THEN <<"-">> ELSE <<>>
    IN  IF frac = 0 THEN sign \o NatToString(whole)
        ELSE sign \o NatToString(whole) \o <<".">>
                  \o StripTrailingZeros(PadStart(NatToString(frac), ScaleDigits))

\* The JavaScript % operator: the remainder has the sign of the dividend.
JsRem(a, b) == IF a >= 0 THEN a % b ELSE -((-a) % b)

\* Math.round in the place of Math.floor: rounds to nearest.
RoundTimes(v, k) ==
    LET n == 2 * v * k + Scale
    IN  IF n >= 0 THEN n \div (2 * Scale) ELSE -(((-n) + 2 * Scale - 1) \div (2 * Scale))

\* Math.floor(v / Scale * k) for the fixed-point number v.
FloorTimes(v, k) ==
    LET n == v * k
    IN  IF n >= 0 THEN n \div Scale ELSE -(((-n) + Scale - 1) \div Scale)

\* String.prototype.substring(from, to), 0-based, to exclusive.
Substring(s, from, to) ==
    LET lo == IF from > Len(s) THEN Len(s) ELSE from
        hi == IF to > Len(s) THEN Len(s) ELSE to
    IN  SubSeq(s, lo + 1, hi)

\* The match of /^\d+/u: the longest prefix of digits.
RECURSIVE LeadingDigits(_)
LeadingDigits(s) ==
    IF s # <<>> /\ IsDigit(Head(s)) THEN <<Head(s)>> \o LeadingDigits(Tail(s))
    ELSE <<>>

----------------------------------------------------------------------------
(* Field formatters.                                                       *)

hours(time) == IntToString(time.hours)

hours2(time) == PadStart(IntToString(time.hours), 2)

\* The remainder alone, without the wrap of a negative remainder.
hours12Remainder(time) == IntToString(JsRem(time.hours, 12))

hours12(time) == IntToString(JsRem(12 + JsRem(time.hours, 12), 12))

hours122(time) == PadStart(IntToString(JsRem(12 + JsRem(time.hours, 12), 12)), 2)

amPm(time) == IF time.hours < 12 THEN <<"A", "M">> ELSE <<"P", "M">>

minutes(time) == IntToString(time.minutes)

minutes2(time) == PadStart(IntToString(time.minutes), 2)

seconds(time) == NumberToString(time.seconds)

\* Pads the whole string, not the whole part of the seconds.
seconds2PadsAll(time) == PadStart(NumberToString(time.seconds), 2)

seconds2(time) ==
    LET str   == NumberToString(time.seconds)
        match == LeadingDigits(str)
    IN  IF match = <<>> THEN str
        ELSE PadStart(match, 2) \o SubSeq(str, Len(match) + 1, Len(str))

floorSeconds(time) == IntToString(FloorTimes(time.seconds, 1))

floorSeconds2(time) == PadStart(IntToString(FloorTimes(time.seconds, 1)), 2)

secondsMs(time) ==
    LET s == PadStart(IntToString(FloorTimes(time.seconds, Ms)), 5)
    IN  Substring(s, 0, 2) \o <<".">> \o Substring(s, 2, Len(s))

----------------------------------------------------------------------------
(* Formatters as values.  A formatter is named by a string; NoFn is the    *)
(* value undefined in a slot that should hold a formatter.                 *)

NoFn == "undefined"

\* The value undefined, and a string value, as elements of an array.
Undefined == [type |-> "undefined"]

Str(s) == [type |-> "string", val |-> s]

\* formatter(time), for the formatter named f.
Apply(f, time) ==
    CASE f = "leadingT"          -> <<"T">>
      [] f = "leadingNone"       -> <<>>
      [] f = "separatorBasic"    -> <<>>
      [] f = "separatorExtended" -> <<":">>
      [] f = "hours"             -> hours(time)
      [] f = "hours2"            -> hours2(time)
      [] f = "hours12"           -> hours12(time)
      [] f = "hours122"          -> hours122(time)
      [] f = "amPm"              -> amPm(time)
      [] f = "minutes"           -> minutes(time)
      [] f = "minutes2"          -> minutes2(time)
      [] f = "seconds"           -> seconds(time)
      [] f = "seconds2"          -> seconds2(time)
      [] f = "floorSeconds"      -> floorSeconds(time)
      [] f = "floorSeconds2"     -> floorSeconds2(time)
      [] f = "secondsMs"         -> secondsMs(time)

\* formatters[i]?.(time), i 0-based.
OptionalCall(formatters, i, time) ==
    IF i + 1 <= Len(formatters) /\ formatters[i + 1] # NoFn
    THEN Str(Apply(formatters[i + 1], time))
    ELSE Undefined

\* concatMap(texts, (text, i) => [text, formatters[i]?.(time)])
RECURSIVE ConcatMapFrom(_, _, _, _)
ConcatMapFrom(texts, formatters, time, i) ==
    IF i >= Len(texts) THEN <<>>
    ELSE <<Str(texts[i + 1]), OptionalCall(formatters, i, time)>>
             \o ConcatMapFrom(texts, formatters, time, i + 1)

\* String concatenation in the place of join: undefined reads "undefined".
RECURSIVE JoinByConcatenation(_)
JoinByConcatenation(parts) ==
    IF parts = <<>> THEN <<>>
    ELSE (IF Head(parts).type = "undefined"
          THEN <<"u", "n", "d", "e", "f", "i", "n", "e", "d">>
          ELSE Head(parts).val)
             \o JoinByConcatenation(Tail(parts))

\* Array.prototype.join(""): undefined elements are joined as "".
RECURSIVE Join(_)
Join(parts) ==
    IF parts = <<>> THEN <<>>
    ELSE (IF Head(parts).type = "undefined" THEN <<>> ELSE Head(parts).val)
             \o Join(Tail(parts))

\* timeTemplate(texts, ...formatters): the closure it returns.
timeTemplate(texts, formatters) == [texts |-> texts, formatters |-> formatters]

\* Calling the closure timeTemplate returned.
Invoke(template, time) ==
    Join(ConcatMapFrom(template.texts, template.formatters, time, 0))

----------------------------------------------------------------------------
(* The iso8601 factory.                                                    *)

\* obj[key] for an object literal: undefined when the key is not in it.
Lookup(table, key) == IF key \in DOMAIN table THEN table[key] ELSE NoFn

\* options.key ?? default
OrDefault(options, key, default) ==
    IF key \in DOMAIN options THEN options[key] ELSE default

\* The two separators the wrong way around.
SeparatorTableSwapped == [basic |-> "separatorExtended", extended |-> "separatorBasic"]

SeparatorTable == [basic |-> "separatorBasic", extended |-> "separatorExtended"]

SecondsTable == [none |-> "seconds2", seconds |-> "floorSeconds2", ms |-> "secondsMs"]

\* options.leadingT tested for truth: an omitted leadingT reads as false.
LeadingOfTruthy(options) ==
    IF "leadingT" \in DOMAIN options /\ options.leadingT THEN "leadingT" ELSE "leadingNone"

LeadingOf(options) ==
    IF OrDefault(options, "leadingT", TRUE) THEN "leadingT" ELSE "leadingNone"

SeparatorOf(options) == Lookup(SeparatorTable, OrDefault(options, "format", "extended"))

SecondsOf(options) == Lookup(SecondsTable, OrDefault(options, "round", "none"))

\* The strings of `${leading}${hours2}${separator}${minutes2}${separator}${seconds}`.
IsoTexts == <<<<>>, <<>>, <<>>, <<>>, <<>>, <<>>, <<>>>>

\* The leading marker after the hours.
iso8601MarkerAfterHours(options) ==
    [texts |-> IsoTexts,
     formatters |-> <<"hours2", LeadingOf(options), SeparatorOf(options), "minutes2",
                      SeparatorOf(options), SecondsOf(options)>>]

iso8601(options) ==
    timeTemplate(IsoTexts,
                 <<LeadingOf(options), "hours2", SeparatorOf(options), "minutes2",
                   SeparatorOf(options), SecondsOf(options)>>)

\* The round option left out.
HumanIso8601OptionsUnrounded == [leadingT |-> FALSE]

HumanIso8601Options == [round |-> "seconds", leadingT |-> FALSE]

----------------------------------------------------------------------------
(* The inputs.                                                             *)

\* Time values handed to the field formatters, one field at a time.
HoursValues == (-MaxHours)..MaxHours

MinutesValues == 0..MaxMinutes

Fractions ==
    (0..MaxFraction) \cup {Scale - k : k \in 1..MaxFraction} \cup {Scale \div 2}

SecondsValues ==
    {w * Scale + f : w \in (-MaxNegSeconds)..MaxSeconds, f \in Fractions}

\* The time values of the tests: 11:58:27.6398, 00:00:00 and 13:05:30.
TestTimes ==
    { [hours |-> 11, minutes |-> 58, seconds |-> 27 * Scale + 6398],
      [hours |-> 0,  minutes |-> 0,  seconds |-> 0],
      [hours |-> 13, minutes |-> 5,  seconds |-> 30 * Scale] }

\* Time values handed to the composed formatters.
Times ==
    TestTimes \cup
    [ hours   : (-1)..MaxIsoHours,
      minutes : {m \in 0..MaxIsoMinutes : m % 5 = 0},
      seconds : {w * Scale + f :
                    w \in {-1} \cup {x \in 0..MaxIsoSeconds : x % 5 = 0},
                    f \in {0, 18, Scale \div 2}} ]

\* Iso8601Options: every field may be omitted; "compact" and "minutes" stand
\* for values outside the enumerated sets.
Restrict(f, D) == [k \in D |-> f[k]]

OptionsValues ==
    { Restrict(f, D) :
        f \in [ format   : {"basic", "extended", "compact"},
                round    : {"none", "seconds", "ms", "minutes"},
                leadingT : BOOLEAN ],
        D \in SUBSET {"format", "round", "leadingT"} }

\* The literal strings and the placeholders of a hand-built template.
Fragments == { <<>>, <<":">>, <<" ">> }

TemplateFormatters == {"hours12", "minutes2", "amPm"}

TextsValues == UNION { [1..n -> Fragments] : n \in 1..MaxTexts }

FormattersValues(texts) ==
    UNION { [1..k -> TemplateFormatters] : k \in 0..Len(texts) }

----------------------------------------------------------------------------
(* The state: the formatter the last call of iso8601 returned (with the    *)
(* options it was built from), the module-level constant humanIso8601, and *)
(* the call in progress: its function, its arguments and what it returned. *)

Idle == [fn |-> "idle"]

NoFormatter == [built |-> FALSE]

Init ==
    /\ formatter = NoFormatter
    /\ humanIso8601 = iso8601(HumanIso8601Options)
    /\ call = Idle

\* A field formatter is called with a record that has the field it reads.
CallField(fn, arg) ==
    /\ call' = [fn |-> fn, arg |-> arg, out |-> Apply(fn, arg)]
    /\ UNCHANGED <<formatter, humanIso8601>>

CallHours == call = Idle /\ \E h \in HoursValues : CallField("hours", [hours |-> h])

CallHours2 == call = Idle /\ \E h \in HoursValues : CallField("hours2", [hours |-> h])

CallHours12 == call = Idle /\ \E h \in HoursValues : CallField("hours12", [hours |-> h])

CallHours122 == call = Idle /\ \E h \in HoursValues : CallField("hours122", [hours |-> h])

CallAmPm == call = Idle /\ \E h \in HoursValues : CallField("amPm", [hours |-> h])

CallMinutes == call = Idle /\ \E m \in MinutesValues : CallField("minutes", [minutes |-> m])

CallMinutes2 == call = Idle /\ \E m \in MinutesValues : CallField("minutes2", [minutes |-> m])

CallSeconds == call = Idle /\ \E s \in SecondsValues : CallField("seconds", [seconds |-> s])

CallSeconds2 == call = Idle /\ \E s \in SecondsValues : CallField("seconds2", [seconds |-> s])

CallFloorSeconds == call = Idle /\ \E s \in SecondsValues : CallField("floorSeconds", [seconds |-> s])

CallFloorSeconds2 == call = Idle /\ \E s \in SecondsValues : CallField("floorSeconds2", [seconds |-> s])

CallSecondsMs == call = Idle /\ \E s \in SecondsValues : CallField("secondsMs", [seconds |-> s])

\* timeTemplate(texts, ...formatters)(time)
CallTimeTemplate ==
    /\ call = Idle
    /\ \E texts \in TextsValues : \E formatters \in FormattersValues(texts) :
       \E time \in TestTimes :
        /\ call' = [fn |-> "timeTemplate", texts |-> texts, formatters |-> formatters,
                    arg |-> time,
                    out |-> Invoke(timeTemplate(texts, formatters), time)]
        /\ UNCHANGED <<formatter, humanIso8601>>

\* iso8601(options): no statement of the factory throws, whatever the options.
CallIso8601 ==
    /\ call = Idle
    /\ \E options \in OptionsValues :
        /\ formatter' = [built |-> TRUE, options |-> options,
                         template |-> iso8601(options)]
        /\ call' = [fn |-> "iso8601", options |-> options, outcome |-> "returned"]
        /\ UNCHANGED humanIso8601

\* formatter(time), for the formatter iso8601 returned.
CallFormatter ==
    /\ call = Idle
    /\ formatter.built
    /\ \E time \in Times :
        /\ call' = [fn |-> "formatter", options |-> formatter.options, arg |-> time,
                    out |-> Invoke(formatter.template, time)]
        /\ UNCHANGED <<formatter, humanIso8601>>

\* humanIso8601(time)
CallHumanIso8601 ==
    /\ call = Idle
    /\ \E time \in Times :
        /\ call' = [fn |-> "humanIso8601", arg |-> time,
                    out |-> Invoke(humanIso8601, time)]
        /\ UNCHANGED <<formatter, humanIso8601>>

\* The caller takes the result.
Return ==
    /\ call # Idle
    /\ call' = Idle
    /\ UNCHANGED <<formatter, humanIso8601>>

Next ==
    \/ CallIso8601
    \/ CallFormatter
    \/ CallHumanIso8601
    \/ Return

Spec == Init /\ [][Next]_vars

FieldNext ==
    \/ CallHours
    \/ CallHours2
    \/ CallHours12
    \/ CallHours122
    \/ CallAmPm
    \/ CallMinutes
    \/ CallMinutes2
    \/ CallSeconds
    \/ CallSeconds2
    \/ CallFloorSeconds
    \/ CallFloorSeconds2
    \/ CallSecondsMs
    \/ Return

FieldSpec == Init /\ [][FieldNext]_vars

TemplateNext ==
    \/ CallTimeTemplate
    \/ Return

TemplateSpec == Init /\ [][TemplateNext]_vars

----------------------------------------------------------------------------
(* Helpers of the properties.                                              *)

TestTime == [hours |-> 11, minutes |-> 58, seconds |-> 27 * Scale + 6398]

Has(options, key, value) == key \in DOMAIN options /\ options[key] = value

\* The options with the option key set to value.
SetOption(options, key, value) ==
    [k \in DOMAIN options \cup {key} |-> IF k = key THEN value ELSE options[k]]

\* The options without the option key.
Omit(options, key) == Restrict(options, DOMAIN options \ {key})

\* Every option given is a value of its enumerated set.
ValidOptions(options) ==
    /\ "format" \in DOMAIN options => options.format \in {"basic", "extended"}
    /\ "round" \in DOMAIN options => options.round \in {"none", "seconds", "ms"}

\* The omitted options filled in with the documented defaults.
WithDefaults(options) ==
    [ format   |-> IF "format" \in DOMAIN options THEN options.format ELSE "extended",
      round    |-> IF "round" \in DOMAIN options THEN options.round ELSE "none",
      leadingT |-> IF "leadingT" \in DOMAIN options THEN options.leadingT ELSE TRUE ]

ExpectedLeading(options) == IF Has(options, "leadingT", FALSE) THEN <<>> ELSE <<"T">>

ExpectedSeparator(options) == IF Has(options, "format", "basic") THEN <<>> ELSE <<":">>

ExpectedSeconds(options, time) ==
    IF Has(options, "round", "seconds") THEN floorSeconds2(time)
    ELSE IF Has(options, "round", "ms") THEN secondsMs(time)
    ELSE seconds2(time)

ExpectedIso8601(options, time) ==
    ExpectedLeading(options) \o hours2(time) \o ExpectedSeparator(options)
        \o minutes2(time) \o ExpectedSeparator(options) \o ExpectedSeconds(options, time)

RECURSIVE Without(_, _)
Without(s, c) ==
    IF s = <<>> THEN <<>>
    ELSE (IF Head(s) = c THEN <<>> ELSE <<Head(s)>>) \o Without(Tail(s), c)

Count(s, c) == Cardinality({i \in 1..Len(s) : s[i] = c})

AllDigits(s) == \A i \in 1..Len(s) : IsDigit(s[i])

DigitValue(c) == (CHOOSE i \in 1..Len(Digits) : Digits[i] = c) - 1

RECURSIVE ParseNat(_)
ParseNat(s) ==
    IF s = <<>> THEN 0
    ELSE 10 * ParseNat(SubSeq(s, 1, Len(s) - 1)) + DigitValue(s[Len(s)])

\* The text before the first "." of s, or all of s.
RECURSIVE BeforePoint(_)
BeforePoint(s) ==
    IF s = <<>> \/ Head(s) = "." THEN <<>>
    ELSE <<Head(s)>> \o BeforePoint(Tail(s))

\* texts[i] + fs[i](t) + texts[i+1] + ..., a missing formatter adding nothing.
RECURSIVE Interleaved(_, _, _, _)
Interleaved(texts, fs, time, i) ==
    IF i > Len(texts) THEN <<>>
    ELSE texts[i] \o (IF i <= Len(fs) THEN Apply(fs[i], time) ELSE <<>>)
             \o Interleaved(texts, fs, time, i + 1)

----------------------------------------------------------------------------
(* The properties.                                                         *)

\* C1: for every valid combination of options, given or omitted, the
\* formatter iso8601 returned renders L + hours2 + sep + minutes2 + sep + S,
\* with L "T" unless leadingT is false, sep ":" unless format is "basic", and
\* S seconds2, floorSeconds2 or secondsMs as round is "none" (or omitted),
\* "seconds" or "ms"; and it renders what the formatter built from the same
\* options with every default written out renders.
C1_Iso8601Layout ==
    (call.fn = "formatter" /\ ValidOptions(call.options)) =>
        /\ call.out = ExpectedIso8601(call.options, call.arg)
        /\ call.out = Invoke(iso8601(WithDefaults(call.options)), call.arg)

C1_Witness ==
    /\ call.fn = "formatter"
    /\ DOMAIN call.options = {}
    /\ call.arg = TestTime
    /\ call.out = <<"T", "1", "1", ":", "5", "8", ":", "2", "7", ".", "6", "3", "9", "8">>

\* C2: with leadingT false the formatter renders what the formatter with
\* leadingT true or omitted renders, less its first character, which is "T";
\* whatever format and round are.
C2_LeadingTStripped ==
    (call.fn = "formatter" /\ ValidOptions(call.options)
        /\ Has(call.options, "leadingT", FALSE)) =>
        LET omitted == Invoke(iso8601(Omit(call.options, "leadingT")), call.arg)
            given   == Invoke(iso8601(SetOption(call.options, "leadingT", TRUE)), call.arg)
        IN  /\ omitted = <<"T">> \o call.out
            /\ given = <<"T">> \o call.out

C2_Witness ==
    /\ call.fn = "formatter"
    /\ call.options = [leadingT |-> FALSE, format |-> "basic", round |-> "ms"]
    /\ call.arg = TestTime
    /\ call.out = <<"1", "1", "5", "8", "2", "7", ".", "6", "3", "9">>

\* C3: the extended output has exactly two ":", one right after the hours
\* and one right after the minutes, and the basic output of the same round
\* and leadingT is the extended output without them.
C3_BasicIsExtendedWithoutColons ==
    (call.fn = "formatter" /\ ValidOptions(call.options)) =>
        LET time     == call.arg
            extended == Invoke(iso8601(SetOption(call.options, "format", "extended")), time)
            default  == Invoke(iso8601(Omit(call.options, "format")), time)
            basic    == Invoke(iso8601(SetOption(call.options, "format", "basic")), time)
            first    == Len(ExpectedLeading(call.options) \o hours2(time)) + 1
            second   == first + Len(minutes2(time)) + 1
        IN  /\ call.out = IF Has(call.options, "format", "basic") THEN basic ELSE extended
            /\ default = extended
            /\ Count(extended, ":") = 2
            /\ extended[first] = ":" /\ extended[second] = ":"
            /\ basic = Without(extended, ":")

C3_Witness ==
    /\ call.fn = "formatter"
    /\ call.options = [format |-> "basic"]
    /\ call.arg = TestTime
    /\ call.out = <<"T", "1", "1", "5", "8", "2", "7", ".", "6", "3", "9", "8">>

\* C4: a call of iso8601 with a format or a round outside its enumerated set
\* throws, and returns no formatter.
C4_InvalidOptionsThrow ==
    (call.fn = "iso8601" /\ ~ValidOptions(call.options)) => call.outcome = "threw"

\* C5: for 0 <= s < 100 the digits of secondsMs read, without the ".", as
\* the largest whole number of milliseconds not above s.
C5_SecondsMsTruncates ==
    (call.fn = "secondsMs" /\ call.arg.seconds >= 0 /\ call.arg.seconds < 100 * Scale) =>
        LET digits == Without(call.out, ".")
            ms     == ParseNat(digits)
        IN  /\ Count(call.out, ".") = 1
            /\ AllDigits(digits)
            /\ ms * Scale <= call.arg.seconds * Ms
            /\ call.arg.seconds * Ms < (ms + 1) * Scale

C5_Witness ==
    /\ call.fn = "secondsMs"
    /\ call.arg.seconds = Scale + 18
    /\ call.out = <<"0", "1", ".", "0", "0", "1">>

\* C6: for every seconds value secondsMs renders two digits, a "." and three
\* digits.
C6_SecondsMsShape ==
    call.fn = "secondsMs" =>
        /\ Len(call.out) = 6
        /\ call.out[3] = "."
        /\ AllDigits(SubSeq(call.out, 1, 2))
        /\ AllDigits(SubSeq(call.out, 4, 6))

\* C7: with n texts and at most n - 1 formatters, the template renders
\* texts[0] + fs[0](t) + texts[1] + ... + texts[n-1], a missing trailing
\* formatter adding nothing.
C7_TemplateInterleaves ==
    (call.fn = "timeTemplate" /\ Len(call.formatters) <= Len(call.texts) - 1) =>
        /\ call.out = Interleaved(call.texts, call.formatters, call.arg, 1)
        /\ Count(call.out, "u") = 0

C7_Witness ==
    /\ call.fn = "timeTemplate"
    /\ call.texts = << <<>>, <<":">>, <<" ">> >>
    /\ call.formatters = <<"hours12">>
    /\ call.arg = [hours |-> 13, minutes |-> 5, seconds |-> 30 * Scale]
    /\ call.out = <<"1", ":", " ">>

\* C8: hours12 renders the k of 0..11 that is congruent to the hours modulo
\* 12, and hours122 that k padded to two characters.
C8_Hours12Congruent ==
    call.fn \in {"hours12", "hours122"} =>
        \E k \in 0..11 :
            /\ (call.arg.hours - k) % 12 = 0
            /\ call.fn = "hours12" => call.out = IntToString(k)
            /\ call.fn = "hours122" => call.out = PadStart(IntToString(k), 2)

C8_Witness ==
    /\ call.fn = "hours12"
    /\ call.arg.hours = -1
    /\ call.out = <<"1", "1">>

\* C9: humanIso8601 stays the formatter iso8601 builds from round "seconds"
\* and leadingT false, and after any calls renders hours2 + ":" + minutes2 +
\* ":" + floorSeconds2 of its argument.
C9_HumanIso8601 ==
    /\ humanIso8601 = iso8601([round |-> "seconds", leadingT |-> FALSE])
    /\ call.fn = "humanIso8601" =>
        /\ call.out = hours2(call.arg) \o <<":">> \o minutes2(call.arg) \o <<":">>
                          \o floorSeconds2(call.arg)
        /\ call.out = Invoke(iso8601([round |-> "seconds", leadingT |-> FALSE]), call.arg)

C9_Witness ==
    /\ call.fn = "humanIso8601"
    /\ formatter.built
    /\ call.arg = TestTime
    /\ call.out = <<"1", "1", ":", "5", "8", ":", "2", "7">>

====
